---- MODULE Spec2Model ----
(***************************************************************************)
(* Multi-Modal Research Assistant: the multimodal RAG store                *)
(* (src/ai_component/modules/RAG/vector_store.py), the FastAPI host        *)
(* (main.py) and the LangGraph workflow (src/ai_component/graph).          *)
(*                                                                         *)
(* Everything runs on one asyncio event loop, so an action is the code     *)
(* that runs between two suspension points.  load_and_process_document     *)
(* awaits only coroutines that never suspend, so one ingestion is one      *)
(* step; rag.query_document suspends in asyncio.to_thread(llm.invoke).     *)
(***************************************************************************)
EXTENDS Integers, Sequences, FiniteSets, TLC

VARIABLES
    all_docs,           \* rag.all_docs: the segment list
    all_embeddings,     \* rag.all_embeddings
    image_data_store,   \* rag.image_data_store: image_id -> base64 payload
    vector_store,       \* rag.vector_store: None or the FAISS index
    document_uploaded,  \* main.document_uploaded ("ready")
    jobs,               \* background ingestion tasks, in the order they were added
    upload_dir,         \* names of the files in the uploads directory
    uploads,            \* number of upload requests so far
    resets,             \* number of reset requests so far
    upload_response,    \* what the last upload request returned
    checkpoints,        \* AsyncSqliteSaver: thread_id -> latest checkpointed channel values
    uuids,              \* number of uuid4() values drawn so far
    queries,            \* number of query requests so far
    wf_pc,              \* "idle", or "running" while workflow.ainvoke is awaited
    thread,             \* config.configurable.thread_id of the running invocation
    req_session,        \* request.session_id of the running request
    state,              \* channel values of the running invocation (AssistantState)
    tasks,              \* tasks of the current superstep: node -> status and writes
    finished,           \* nodes whose task has ended in this invocation
    context_docs,       \* query_document: the retrieved segments
    content,            \* query_document: the prompt of the last llm.invoke
    llm_calls,          \* query_document: llm.invoke calls made by the current call
    llm_raised,         \* query_document: how many of those calls raised
    response,           \* VectorNode: what rag.query_document returned or raised
    query_response      \* the QueryResponse returned for the last request

ragvars == <<all_docs, all_embeddings, image_data_store, vector_store>>
hostvars == <<document_uploaded, jobs, upload_dir, uploads, resets, upload_response>>
wfvars == <<checkpoints, uuids, queries, wf_pc, thread, req_session, state, tasks,
            finished, query_response>>
queryvars == <<context_docs, content, llm_calls, llm_raised, response>>
vars == <<ragvars, hostvars, wfvars, queryvars>>

\* Python's None where the other values are sequences or functions
None == << >>
NoExc == "none"

(***************************************************************************)
(* Bounds of the model.                                                    *)
(***************************************************************************)
MaxUploads == 2
MaxQueries == 2
MaxResets == 1

(***************************************************************************)
(* The uploaded files.  A page has `text` chunks after splitting (0: the   *)
(* page text is blank), `raises` when extracting or embedding its text     *)
(* throws, and a list of images: "ok", "undecodable" (extract_image or     *)
(* Image.open throws) or "unembeddable" (embed_image throws).              *)
(***************************************************************************)
Page(n, r, i) == [text |-> n, raises |-> r, imgs |-> i]

DocIds == {"A", "B", "C", "D", "E"}

Pages(d) ==
    CASE d = "A" -> << Page(1, FALSE, <<"ok">>) >>
      [] d = "B" -> << Page(0, FALSE, <<"ok">>), Page(1, TRUE, << >>) >>
      [] d = "C" -> << Page(0, FALSE, <<"ok", "undecodable", "unembeddable">>) >>
      [] d = "D" -> << Page(0, FALSE, << >>) >>
      [] d = "E" -> << Page(3, FALSE, << >>), Page(3, FALSE, <<"undecodable", "ok">>) >>

(***************************************************************************)
(* Embeddings.  A vector is named by the path that computed it and by what *)
(* it was computed from: CLIP's text tower and its image tower are         *)
(* different functions.                                                    *)
(***************************************************************************)
embed_text(text) == <<"text_features", text>>
embed_image(image) == <<"image_features", image>>
embed_documents(texts) == [i \in 1..Len(texts) |-> embed_text(texts[i])]

(***************************************************************************)
(* The state of a MultimodalRAG object, as a record, for the operators     *)
(* that compute one ingestion.  `exc` is the exception in flight, if any.  *)
(***************************************************************************)
RagState == [all_docs |-> all_docs, all_embeddings |-> all_embeddings,
             image_data_store |-> image_data_store, vector_store |-> vector_store,
             exc |-> NoExc]

RagInit == [all_docs |-> << >>, all_embeddings |-> << >>,
            image_data_store |-> << >>, vector_store |-> None, exc |-> NoExc]

TextChunk(d, p, c) ==
    [page_content |-> <<"chunk", d, p, c>>, page |-> p, type |-> "text", image_id |-> None]

ImageDoc(p, k) ==
    [page_content |-> <<"Image", p, k>>, page |-> p, type |-> "image", image_id |-> <<p, k>>]

ImagePayload(d, p, k) == <<"png", d, p, k>>

RECURSIVE AppendChunks(_, _, _, _, _)
AppendChunks(r, d, p, c, n) ==
    IF c > n THEN r
    ELSE AppendChunks(
            [r EXCEPT !.all_embeddings = Append(@, embed_text(TextChunk(d, p, c).page_content)),
                      !.all_docs = Append(@, TextChunk(d, p, c))],
            d, p, c + 1, n)

\* page index p is 0-based as in enumerate(doc)
process_page_text(r, d, p) ==
    LET page == Pages(d)[p + 1] IN
    IF page.raises THEN [r EXCEPT !.exc = "Exception"]
    ELSE IF page.text = 0 THEN r
    ELSE AppendChunks(r, d, p, 1, page.text)

\* image processing that keeps the segment of an image whose embedding failed
RECURSIVE process_page_images_unguarded(_, _, _, _)
process_page_images_unguarded(r, d, p, k) ==
    LET imgs == Pages(d)[p + 1].imgs IN
    IF k >= Len(imgs) THEN r
    ELSE LET img == imgs[k + 1]
             stored == [r EXCEPT !.image_data_store = (<<p, k>> :> ImagePayload(d, p, k)) @@ @]
             r2 == CASE img = "undecodable" -> r
                     [] img = "unembeddable" ->
                          [stored EXCEPT !.all_docs = Append(@, ImageDoc(p, k))]
                     [] OTHER ->
                          [stored EXCEPT
                              !.all_embeddings = Append(@, embed_image(ImagePayload(d, p, k))),
                              !.all_docs = Append(@, ImageDoc(p, k))]
         IN process_page_images_unguarded(r2, d, p, k + 1)

\* image processing in which the failure of one image is not caught
RECURSIVE process_page_images_fatal(_, _, _, _)
process_page_images_fatal(r, d, p, k) ==
    LET imgs == Pages(d)[p + 1].imgs IN
    IF k >= Len(imgs) THEN r
    ELSE LET img == imgs[k + 1]
             stored == [r EXCEPT !.image_data_store = (<<p, k>> :> ImagePayload(d, p, k)) @@ @]
         IN CASE img = "undecodable" -> [r EXCEPT !.exc = "Exception"]
              [] img = "unembeddable" -> [stored EXCEPT !.exc = "Exception"]
              [] OTHER ->
                   process_page_images_fatal(
                      [stored EXCEPT
                          !.all_embeddings = Append(@, embed_image(ImagePayload(d, p, k))),
                          !.all_docs = Append(@, ImageDoc(p, k))],
                      d, p, k + 1)

RECURSIVE process_page_images(_, _, _, _)
process_page_images(r, d, p, k) ==
    LET imgs == Pages(d)[p + 1].imgs IN
    IF k >= Len(imgs) THEN r
    ELSE LET img == imgs[k + 1]
             stored == [r EXCEPT !.image_data_store = (<<p, k>> :> ImagePayload(d, p, k)) @@ @]
             r2 == CASE img = "undecodable" -> r
                     [] img = "unembeddable" -> stored
                     [] OTHER ->
                          [stored EXCEPT
                              !.all_embeddings = Append(@, embed_image(ImagePayload(d, p, k))),
                              !.all_docs = Append(@, ImageDoc(p, k))]
         IN process_page_images(r2, d, p, k + 1)

RECURSIVE process_pdf_pages(_, _, _)
process_pdf_pages(r, d, p) ==
    IF p >= Len(Pages(d)) THEN r
    ELSE LET t == process_page_text(r, d, p) IN
         IF t.exc # NoExc THEN t
         ELSE process_pdf_pages(process_page_images(t, d, p, 0), d, p + 1)

FAISS_from_texts(docs) ==
    LET vecs == embed_documents([i \in 1..Len(docs) |-> docs[i].page_content])
    IN [i \in 1..Len(docs) |-> [doc |-> docs[i], vector |-> vecs[i]]]

create_vector_store(r) ==
    IF r.all_docs = << >> THEN [r EXCEPT !.exc = "ValueError"]
    ELSE [r EXCEPT !.vector_store = FAISS_from_texts(r.all_docs)]

\* an ingestion that keeps what the lists held
ClearLists_appends(r) == r

ClearLists(r) ==
    [r EXCEPT !.all_docs = << >>, !.all_embeddings = << >>, !.image_data_store = << >>]

load_and_process_document(r, d, exists) ==
    IF ~exists THEN [r EXCEPT !.exc = "FileNotFoundError"]
    ELSE LET cleared == ClearLists(r) IN
         LET processed == process_pdf_pages(cleared, d, 0) IN
         IF processed.exc # NoExc THEN processed
         ELSE create_vector_store(processed)

\* process_user_document: the RAG state it leaves and the boolean it returns
process_user_document(r, d, exists) ==
    LET after == load_and_process_document(r, d, exists)
    IN [rag |-> [after EXCEPT !.exc = NoExc], success |-> after.exc = NoExc]


(***************************************************************************)
(* main.py: the upload endpoint, the background ingestion task and reset.  *)
(***************************************************************************)
\* A background task.  `path` is the file it was given; `ready_before` keeps
\* what document_uploaded was when its upload request arrived.
Job(d, path, ready) ==
    [doc |-> d, path |-> path, pc |-> "queued", success |-> FALSE, ready_before |-> ready]

\* f"{uuid.uuid4()}{file_extension}": a file name that nothing else has
FreshPath == CHOOSE p \in 1..(MaxUploads + 1) :
                /\ p \notin upload_dir
                /\ \A i \in 1..Len(jobs) : jobs[i].path # p
                /\ \A q \in 1..(p - 1) : q \in upload_dir \/ \E i \in 1..Len(jobs) : jobs[i].path = q

\* how long the ingestion of a document takes, in seconds, against the
\* timeout of the asyncio.wait_for around it
Seconds(d) == IF d \in {"B", "E"} THEN 400 ELSE 1
IngestionTimeout == 300

RemoveAt(seq, i) == [j \in 1..(Len(seq) - 1) |-> IF j < i THEN seq[j] ELSE seq[j + 1]]

\* POST /upload.  check is what the validation of the file finds.
upload_document(d, check) ==
    /\ uploads < MaxUploads
    /\ uploads' = uploads + 1
    /\ document_uploaded' = FALSE
    /\ IF check = "ok"
       THEN /\ jobs' = Append(jobs, Job(d, FreshPath, document_uploaded))
            /\ upload_dir' = upload_dir \cup {FreshPath}
            /\ upload_response' = [success |-> TRUE, status |-> 200]
       ELSE /\ jobs' = jobs
            /\ upload_dir' = upload_dir
            /\ upload_response' = [success |-> FALSE, status |-> 400]
    /\ UNCHANGED <<ragvars, resets, wfvars, queryvars>>

\* process_document_background up to the end of rag.process_user_document:
\* the ingestion itself never suspends, so the timeout cannot cancel it.
process_document_background(i) ==
    /\ i \in 1..Len(jobs)
    /\ jobs[i].pc = "queued"
    /\ LET res == process_user_document(RagState, jobs[i].doc, jobs[i].path \in upload_dir) IN
       /\ all_docs' = res.rag.all_docs
       /\ all_embeddings' = res.rag.all_embeddings
       /\ image_data_store' = res.rag.image_data_store
       /\ vector_store' = res.rag.vector_store
       /\ jobs' = [jobs EXCEPT ![i].pc = "processed", ![i].success = res.success]
    /\ UNCHANGED <<document_uploaded, upload_dir, uploads, resets, upload_response,
                   wfvars, queryvars>>

\* a task that ends without setting document_uploaded
job_finish_unready(i) ==
    /\ i \in 1..Len(jobs)
    /\ jobs[i].pc = "processed"
    /\ upload_dir' = upload_dir \ {jobs[i].path}
    /\ jobs' = RemoveAt(jobs, i)
    /\ UNCHANGED <<document_uploaded, ragvars, uploads, resets, upload_response, wfvars,
                   queryvars>>

\* a task that ends without removing its file
job_finish_keeps_file(i) ==
    /\ i \in 1..Len(jobs)
    /\ jobs[i].pc = "processed"
    /\ document_uploaded' = jobs[i].success
    /\ jobs' = RemoveAt(jobs, i)
    /\ UNCHANGED <<upload_dir, ragvars, uploads, resets, upload_response, wfvars, queryvars>>

\* process_document_background from the return of wait_for to its end
job_finish(i) ==
    /\ i \in 1..Len(jobs)
    /\ jobs[i].pc = "processed"
    /\ document_uploaded' = jobs[i].success
    /\ upload_dir' = upload_dir \ {jobs[i].path}
    /\ jobs' = RemoveAt(jobs, i)
    /\ UNCHANGED <<ragvars, uploads, resets, upload_response, wfvars, queryvars>>

\* GET /status: what the host reports (the workflow is up, no
\* initialization error)
get_status ==
    [workflow_ready |-> TRUE,
     document_uploaded |-> document_uploaded,
     rag_initialized |-> vector_store # None,
     initialization_error |-> None]

\* a reset that forgets the image store
reset_system_keeps_images ==
    /\ resets < MaxResets
    /\ resets' = resets + 1
    /\ document_uploaded' = FALSE
    /\ vector_store' = None
    /\ all_docs' = << >>
    /\ all_embeddings' = << >>
    /\ upload_dir' = {}
    /\ jobs' = jobs
    /\ UNCHANGED <<image_data_store, uploads, upload_response, wfvars, queryvars>>

\* a reset that also forgets the chat history
reset_system_clears_history ==
    /\ resets < MaxResets
    /\ resets' = resets + 1
    /\ document_uploaded' = FALSE
    /\ vector_store' = None
    /\ all_docs' = << >>
    /\ all_embeddings' = << >>
    /\ image_data_store' = << >>
    /\ upload_dir' = {}
    /\ checkpoints' = << >>
    /\ UNCHANGED <<jobs, uploads, upload_response, uuids, queries, wf_pc, thread,
                   req_session, state, tasks, finished, query_response, queryvars>>

\* DELETE /reset
reset_system ==
    /\ resets < MaxResets
    /\ resets' = resets + 1
    /\ document_uploaded' = FALSE
    /\ vector_store' = None
    /\ all_docs' = << >>
    /\ all_embeddings' = << >>
    /\ image_data_store' = << >>
    /\ upload_dir' = {}
    /\ jobs' = jobs
    /\ UNCHANGED <<uploads, upload_response, wfvars, queryvars>>


(***************************************************************************)
(* vector_store.py: retrieval, prompt construction and the fallback.       *)
(* A query text is a record [kind, n, note]: n tells the texts of          *)
(* different turns apart.  The language model is a function of its prompt. *)
(***************************************************************************)
K == 5

embed_query(query) == embed_text(query)

\* L2 distance of two CLIP text vectors, as a rank
Distance(qvec, vec) ==
    LET pc == vec[2] IN (qvec[2].n + pc[Len(pc) - 1] + pc[Len(pc)]) % 3

\* index of the nearest entry among `rest`, the earliest one on a tie
Nearest(store, qvec, rest) ==
    CHOOSE i \in rest :
        \A j \in rest :
            \/ Distance(qvec, store[i].vector) < Distance(qvec, store[j].vector)
            \/ /\ Distance(qvec, store[i].vector) = Distance(qvec, store[j].vector)
               /\ i <= j

RECURSIVE TopK(_, _, _, _)
TopK(store, qvec, rest, k) ==
    IF k = 0 \/ rest = {} THEN << >>
    ELSE LET i == Nearest(store, qvec, rest)
         IN <<store[i].doc>> \o TopK(store, qvec, rest \ {i}, k - 1)

similarity_search(store, query, k) ==
    TopK(store, embed_query(query), DOMAIN store, k)

\* retrieval that searches without looking whether the store is set
retrieve_multimodal_unchecked(store, query, k) ==
    [raised |-> FALSE, docs |-> similarity_search(store, query, k)]

\* the retrieved segments, or the ValueError of an unset vector store
retrieve_multimodal(store, query, k) ==
    IF store = None THEN [raised |-> TRUE, docs |-> << >>]
    ELSE [raised |-> FALSE, docs |-> similarity_search(store, query, k)]

SelectType(docs, t) == SelectSeq(docs, LAMBDA doc : doc.type = t)

\* the image parts attached for the retrieved image segments
RECURSIVE ImageParts(_, _)
ImageParts(image_docs, store) ==
    IF image_docs = << >> THEN << >>
    ELSE LET id == Head(image_docs).image_id
             part == IF id # None /\ id \in DOMAIN store THEN <<store[id]>> ELSE << >>
         IN part \o ImageParts(Tail(image_docs), store)

create_multimodal_content(query, retrieved_docs, store) ==
    LET text_docs == SelectType(retrieved_docs, "text")
        image_docs == SelectType(retrieved_docs, "image")
    IN [kind |-> "multimodal",
        query |-> query,
        text_excerpts |-> [i \in 1..Len(text_docs) |->
                              <<text_docs[i].page, text_docs[i].page_content>>],
        image_notes |-> [i \in 1..Len(image_docs) |-> image_docs[i].page],
        images |-> ImageParts(image_docs, store)]

\* a fallback prompt that lists every retrieved segment, of either kind
TextOnlyPrompt_all(query, docs) ==
    [kind |-> "text_only",
     query |-> query,
     text_excerpts |-> [i \in 1..Len(docs) |-> <<docs[i].page, docs[i].page_content>>]]

TextOnlyPrompt(query, docs) ==
    LET text_docs == SelectType(docs, "text")
    IN [kind |-> "text_only",
        query |-> query,
        text_excerpts |-> [i \in 1..Len(text_docs) |->
                              <<text_docs[i].page, text_docs[i].page_content>>]]

NoPrompt == [kind |-> "none"]
LlmAnswer(prompt) == [kind |-> "answer", prompt |-> prompt]
NoTextContent == [kind |-> "no_text_content"]

\* what rag.query_document produced: a returned string or a raised exception
Returned(text) == [raised |-> FALSE, value |-> text]
Raised(exc) == [raised |-> TRUE, value |-> [kind |-> exc]]
NoResponse == [raised |-> FALSE, value |-> [kind |-> "pending"]]


(***************************************************************************)
(* graph/state.py, graph/node.py, graph/graph.py: the workflow.            *)
(***************************************************************************)
NoText == [kind |-> "None"]
EmptyText == [kind |-> "empty"]

AssistantState == [messages |-> << >>, vector_response |-> NoText, research_response |-> NoText]

HumanMessage(text) == [type |-> "human", content |-> text]
AIMessage(text) == [type |-> "ai", content |-> text]

\* state['messages'][-1].content if state['messages'] else ""
LastContent(st) ==
    IF st.messages = << >> THEN EmptyText ELSE st.messages[Len(st.messages)].content

\* the outcome of one task: the channel writes it returned, or the exception it raised
TaskReturned(ws) == [st |-> "returned", writes |-> ws, exc |-> NoExc]
TaskRaised(e) == [st |-> "raised", writes |-> << >>, exc |-> e]
TaskAt(pc) == [st |-> pc, writes |-> << >>, exc |-> NoExc]

LlmRefine(query) == [kind |-> "refined", n |-> query.n, note |-> query.note]
AgentResearch(query) == [kind |-> "research", query |-> query]

QueryRefinerNode(st, outcome) ==
    LET query == LastContent(st) IN
    IF query.kind = "empty"
    THEN TaskReturned(<< <<"messages", <<AIMessage([kind |-> "no_query_to_refine"])>> >> >>)
    ELSE IF outcome = "raise" THEN TaskRaised("CustomException")
    ELSE TaskReturned(<< <<"messages", <<AIMessage(LlmRefine(query))>> >> >>)

\* a research node that takes the user's message, not the last one
ResearchNode_reads_user_message(st, outcome) ==
    LET query == st.messages[Len(st.messages) - 1].content IN
    IF outcome = "raise" THEN TaskRaised("CustomException")
    ELSE TaskReturned(<< <<"research_response", AgentResearch(query)>> >>)

ResearchNode(st, outcome) ==
    LET refined_query == LastContent(st) IN
    IF outcome = "raise" THEN TaskRaised("CustomException")
    ELSE IF refined_query.kind = "empty"
    THEN TaskReturned(<< <<"research_response", [kind |-> "no_query_for_research"]>> >>)
    ELSE TaskReturned(<< <<"research_response", AgentResearch(refined_query)>> >>)

\* VectorNode after rag.query_document: an exception of query_document passes
\* through; a returned str has no attribute `content`
VectorNode(resp) ==
    IF resp.raised THEN TaskRaised(resp.value.kind) ELSE TaskRaised("AttributeError")

\* one assistant message merged from the two branch outputs
Merge(research, vector) ==
    IF vector.kind = "None" THEN research
    ELSE IF research.kind = "None" THEN vector
    ELSE [kind |-> "synthesis", research |-> research, vector |-> vector]

CombinedNode(st, outcome) ==
    IF outcome = "raise" THEN TaskRaised("CustomException")
    ELSE TaskReturned(<< <<"messages",
                          <<AIMessage(Merge(st.research_response, st.vector_response))>> >> >>)

START == "__start__"
END == "__end__"
Nodes == {"query_refiner", "research_node", "vector_node", "combined_node"}

Edges == { <<START, "query_refiner">>,
           <<"query_refiner", "research_node">>,
           <<"query_refiner", "vector_node">>,
           <<"research_node", "combined_node">>,
           <<"vector_node", "combined_node">>,
           <<"combined_node", END>> }

\* the nodes triggered by the nodes that ran in the superstep that ended
NextTasks(ran) == {n \in Nodes : \E m \in ran : <<m, n>> \in Edges}

\* the reducers: add_messages appends, the other channels keep the last value
ApplyWrite(st, w) ==
    CASE w[1] = "messages" -> [st EXCEPT !.messages = @ \o w[2]]
      [] w[1] = "research_response" -> [st EXCEPT !.research_response = w[2]]
      [] w[1] = "vector_response" -> [st EXCEPT !.vector_response = w[2]]

RECURSIVE ApplyWrites(_, _)
ApplyWrites(st, ws) ==
    IF ws = << >> THEN st ELSE ApplyWrites(ApplyWrite(st, Head(ws)), Tail(ws))

\* the writes of a superstep, task by task in the order of the node names
RECURSIVE ApplyTasks(_, _, _)
ApplyTasks(st, ts, order) ==
    IF order = << >> THEN st
    ELSE ApplyTasks(IF Head(order) \in DOMAIN ts
                    THEN ApplyWrites(st, ts[Head(order)].writes) ELSE st,
                    ts, Tail(order))

NodeOrder == <<"combined_node", "query_refiner", "research_node", "vector_node">>

NoTasks == [n \in {} |-> TaskAt("scheduled")]
Schedule(ns) == [n \in ns |-> TaskAt("scheduled")]

NoSession == << >>
ClientSession == <<"session", 1>>
Uuid(n) == <<"uuid", n>>

QueryText(n, ready) == [kind |-> "query", n |-> n, note |-> ~ready]

QueryResponse(text, sid, ok, err) ==
    [response |-> text, session_id |-> sid, success |-> ok, error |-> err]


(***************************************************************************)
(* POST /query: main.query_document around workflow.ainvoke, one request   *)
(* at a time.  The graph runs in supersteps: the tasks of a superstep run  *)
(* concurrently, their writes are applied and checkpointed when all have   *)
(* returned, and the first exception ends the invocation.                  *)
(***************************************************************************)
SessionIdOf(sid, n) == IF sid = NoSession THEN Uuid(n + 1) ELSE sid
UuidsAfter(sid, n) == IF sid = NoSession THEN n + 1 ELSE n

\* the request up to the first suspension inside workflow.ainvoke
query_start(sid) ==
    /\ wf_pc = "idle"
    /\ queries < MaxQueries
    /\ queries' = queries + 1
    /\ LET session_id == SessionIdOf(sid, uuids)
           loaded == IF session_id \in DOMAIN checkpoints
                     THEN checkpoints[session_id] ELSE AssistantState
           input == [loaded EXCEPT
                       !.messages = @ \o <<HumanMessage(QueryText(queries + 1,
                                                                  document_uploaded))>>]
       IN /\ thread' = session_id
          /\ state' = input
          /\ checkpoints' = (session_id :> input) @@ checkpoints
    /\ uuids' = UuidsAfter(sid, uuids)
    /\ req_session' = sid
    /\ wf_pc' = "running"
    /\ tasks' = Schedule(NextTasks({START}))
    /\ finished' = {}
    /\ context_docs' = << >>
    /\ content' = NoPrompt
    /\ llm_calls' = 0
    /\ llm_raised' = 0
    /\ response' = NoResponse
    /\ UNCHANGED <<ragvars, hostvars, query_response>>

NodeBody(n, st, outcome) ==
    CASE n = "query_refiner" -> QueryRefinerNode(st, outcome)
      [] n = "research_node" -> ResearchNode(st, outcome)
      [] n = "combined_node" -> CombinedNode(st, outcome)

Settle(n, result) ==
    /\ tasks' = [tasks EXCEPT ![n] = result]
    /\ finished' = finished \cup {n}

\* a node that touches no shared state runs from its start to its return or raise
run_task(n, outcome) ==
    /\ wf_pc = "running"
    /\ n \in DOMAIN tasks
    /\ n # "vector_node"
    /\ tasks[n].st = "scheduled"
    /\ Settle(n, NodeBody(n, state, outcome))
    /\ UNCHANGED <<ragvars, hostvars, queryvars, checkpoints, uuids, queries, wf_pc,
                   thread, req_session, state, query_response>>

\* VectorNode into rag.query_document, up to the first llm.invoke
vector_node_start ==
    /\ wf_pc = "running"
    /\ "vector_node" \in DOMAIN tasks
    /\ tasks["vector_node"].st = "scheduled"
    /\ LET query == LastContent(state)
           found == retrieve_multimodal(vector_store, query, K) IN
       IF found.raised
       THEN /\ response' = Raised("ValueError")
            /\ Settle("vector_node", VectorNode(Raised("ValueError")))
            /\ UNCHANGED <<context_docs, content, llm_calls, llm_raised>>
       ELSE /\ context_docs' = found.docs
            /\ content' = create_multimodal_content(query, found.docs, image_data_store)
            /\ llm_calls' = llm_calls + 1
            /\ tasks' = [tasks EXCEPT !["vector_node"] = TaskAt("llm_multimodal")]
            /\ UNCHANGED <<response, finished, llm_raised>>
    /\ UNCHANGED <<ragvars, hostvars, checkpoints, uuids, queries, wf_pc, thread,
                   req_session, state, query_response>>

\* a fallback that calls the model again without looking for text segments
AfterMultimodal_retries(outcome, prompt, docs) ==
    IF outcome = "ok" THEN [done |-> TRUE, response |-> Returned(LlmAnswer(prompt))]
    ELSE [done |-> FALSE, response |-> NoResponse]

\* what query_document does when the multimodal llm.invoke returns or raises
AfterMultimodal(outcome, prompt, docs) ==
    IF outcome = "ok" THEN [done |-> TRUE, response |-> Returned(LlmAnswer(prompt))]
    ELSE IF SelectType(docs, "text") = << >>
    THEN [done |-> TRUE, response |-> Returned(NoTextContent)]
    ELSE [done |-> FALSE, response |-> NoResponse]

multimodal_llm_returns(outcome) ==
    /\ wf_pc = "running"
    /\ "vector_node" \in DOMAIN tasks
    /\ tasks["vector_node"].st = "llm_multimodal"
    /\ llm_raised' = IF outcome = "ok" THEN llm_raised ELSE llm_raised + 1
    /\ LET after == AfterMultimodal(outcome, content, context_docs)
           query == LastContent(state) IN
       IF after.done
       THEN /\ response' = after.response
            /\ Settle("vector_node", VectorNode(after.response))
            /\ UNCHANGED <<content, llm_calls>>
       ELSE /\ content' = TextOnlyPrompt(query, context_docs)
            /\ llm_calls' = llm_calls + 1
            /\ tasks' = [tasks EXCEPT !["vector_node"] = TaskAt("llm_text_only")]
            /\ UNCHANGED <<response, finished>>
    /\ UNCHANGED <<ragvars, hostvars, context_docs, checkpoints, uuids, queries, wf_pc,
                   thread, req_session, state, query_response>>

\* _fallback_text_only_query when its llm.invoke returns or raises
AfterTextOnly(outcome, prompt) ==
    IF outcome = "ok" THEN Returned(LlmAnswer(prompt)) ELSE Raised("LlmError")

text_only_llm_returns(outcome) ==
    /\ wf_pc = "running"
    /\ "vector_node" \in DOMAIN tasks
    /\ tasks["vector_node"].st = "llm_text_only"
    /\ llm_raised' = IF outcome = "ok" THEN llm_raised ELSE llm_raised + 1
    /\ response' = AfterTextOnly(outcome, content)
    /\ Settle("vector_node", VectorNode(AfterTextOnly(outcome, content)))
    /\ UNCHANGED <<ragvars, hostvars, context_docs, content, llm_calls, checkpoints,
                   uuids, queries, wf_pc, thread, req_session, state, query_response>>

\* the request has answered: its invocation and its locals are gone
RequestEnds ==
    /\ wf_pc' = "idle"
    /\ thread' = NoSession
    /\ req_session' = NoSession
    /\ state' = AssistantState
    /\ tasks' = NoTasks
    /\ finished' = {}
    /\ context_docs' = << >>
    /\ content' = NoPrompt
    /\ llm_calls' = 0
    /\ llm_raised' = 0
    /\ response' = NoResponse

\* a superstep that ends although a task raised
Settled_ended(ts) == \A n \in DOMAIN ts : ts[n].st \in {"returned", "raised"}

\* a superstep that ends with the first task that returns
Settled_first(ts) == \E n \in DOMAIN ts : ts[n].st = "returned"

Settled(ts) == \A n \in DOMAIN ts : ts[n].st = "returned"
Failed(ts) == \E n \in DOMAIN ts : ts[n].st = "raised"

\* result['messages'][-1].content, or the apology when there is none
ResponseContent(result) ==
    IF result.messages = << >> \/ LastContent(result).kind = "empty"
    THEN [kind |-> "apology"] ELSE LastContent(result)

\* the end of a superstep whose tasks all returned; after the last superstep
\* ainvoke returns and the request answers
superstep_end ==
    /\ wf_pc = "running"
    /\ DOMAIN tasks # {}
    /\ Settled(tasks)
    /\ LET result == ApplyTasks(state, tasks, NodeOrder)
           next == NextTasks(DOMAIN tasks)
       IN /\ checkpoints' = (thread :> result) @@ checkpoints
          /\ IF next = {}
             THEN /\ query_response' =
                        QueryResponse(ResponseContent(result), thread, TRUE, "none")
                  /\ RequestEnds
             ELSE /\ state' = result
                  /\ tasks' = Schedule(next)
                  /\ UNCHANGED <<wf_pc, query_response, queryvars, thread, req_session,
                                 finished>>
    /\ UNCHANGED <<ragvars, hostvars, uuids, queries>>

\* an abort that still checkpoints the writes of the tasks that returned
workflow_raises_keeps_writes ==
    /\ wf_pc = "running"
    /\ Failed(tasks)
    /\ query_response' = QueryResponse(EmptyText, SessionIdOf(req_session, uuids),
                                       FALSE, "error")
    /\ uuids' = UuidsAfter(req_session, uuids)
    /\ checkpoints' = (thread :> ApplyTasks(state, tasks, NodeOrder)) @@ checkpoints
    /\ RequestEnds
    /\ UNCHANGED <<ragvars, hostvars, queries>>

\* a task raised: ainvoke raises and the request answers from `except Exception`
workflow_raises ==
    /\ wf_pc = "running"
    /\ Failed(tasks)
    /\ query_response' = QueryResponse(EmptyText, SessionIdOf(req_session, uuids),
                                       FALSE, "error")
    /\ uuids' = UuidsAfter(req_session, uuids)
    /\ RequestEnds
    /\ UNCHANGED <<ragvars, hostvars, checkpoints, queries>>

\* a timeout that lets the cancelled invocation checkpoint what it has
query_timeout_keeps_writes ==
    /\ wf_pc = "running"
    /\ query_response' = QueryResponse(EmptyText, SessionIdOf(req_session, uuids),
                                       FALSE, "timeout")
    /\ uuids' = UuidsAfter(req_session, uuids)
    /\ checkpoints' = (thread :> ApplyTasks(state, tasks, NodeOrder)) @@ checkpoints
    /\ RequestEnds
    /\ UNCHANGED <<ragvars, hostvars, queries>>

\* asyncio.wait_for cancels ainvoke at a suspension point after 120 s
query_timeout ==
    /\ wf_pc = "running"
    /\ query_response' = QueryResponse(EmptyText, SessionIdOf(req_session, uuids),
                                       FALSE, "timeout")
    /\ uuids' = UuidsAfter(req_session, uuids)
    /\ RequestEnds
    /\ UNCHANGED <<ragvars, hostvars, checkpoints, queries>>

(***************************************************************************)
(* The system.                                                             *)
(***************************************************************************)
Init ==
    /\ all_docs = RagInit.all_docs
    /\ all_embeddings = RagInit.all_embeddings
    /\ image_data_store = RagInit.image_data_store
    /\ vector_store = RagInit.vector_store
    /\ document_uploaded = FALSE
    /\ jobs = << >>
    /\ upload_dir = {}
    /\ uploads = 0
    /\ resets = 0
    /\ upload_response = [success |-> FALSE, status |-> 0]
    /\ checkpoints = << >>
    /\ uuids = 0
    /\ queries = 0
    /\ wf_pc = "idle"
    /\ thread = NoSession
    /\ req_session = NoSession
    /\ state = AssistantState
    /\ tasks = NoTasks
    /\ finished = {}
    /\ context_docs = << >>
    /\ content = NoPrompt
    /\ llm_calls = 0
    /\ llm_raised = 0
    /\ response = NoResponse
    /\ query_response = QueryResponse(EmptyText, NoSession, FALSE, "none")

Next ==
    \/ \E d \in DocIds, check \in {"ok", "not_pdf", "too_large"} : upload_document(d, check)
    \/ \E i \in 1..MaxUploads : process_document_background(i)
    \/ \E i \in 1..MaxUploads : job_finish(i)
    \/ reset_system
    \/ \E sid \in {NoSession, ClientSession} : query_start(sid)
    \/ \E n \in Nodes, outcome \in {"ok", "raise"} : run_task(n, outcome)
    \/ vector_node_start
    \/ \E outcome \in {"ok", "raise"} : multimodal_llm_returns(outcome)
    \/ \E outcome \in {"ok", "raise"} : text_only_llm_returns(outcome)
    \/ superstep_end
    \/ workflow_raises
    \/ query_timeout

Spec == Init /\ [][Next]_vars

\* The event loop runs every task that is ready: a background task that was
\* added takes its next step.
JobStep == \E i \in 1..MaxUploads : process_document_background(i) \/ job_finish(i)

\* The uploads, the background tasks and the resets alone: no query action
\* writes a variable that these actions read.
HostNext ==
    \/ \E d \in DocIds, check \in {"ok", "not_pdf", "too_large"} : upload_document(d, check)
    \/ \E i \in 1..MaxUploads : process_document_background(i)
    \/ \E i \in 1..MaxUploads : job_finish(i)
    \/ reset_system

HostSpec == Init /\ [][HostNext]_vars /\ WF_vars(JobStep)

\* The timer of the wait_for around workflow.ainvoke fires: every node awaits
\* its calls, so the event loop gets to run the timer's callback.
LiveSpec == Spec /\ WF_vars(query_timeout)


(***************************************************************************)
(* Steps of the system, recognised from the two states of a transition.    *)
(***************************************************************************)
\* job i ran rag.process_user_document in this step
IngestionRuns(i) ==
    /\ i \in 1..Len(jobs)
    /\ Len(jobs') = Len(jobs)
    /\ jobs[i].pc = "queued"
    /\ jobs'[i].pc = "processed"

\* ... and failed after load_and_process_document had found the file
IngestionFails(i) == IngestionRuns(i) /\ jobs[i].path \in upload_dir /\ ~jobs'[i].success

IngestionSucceeds(i) == IngestionRuns(i) /\ jobs'[i].success

\* VectorNode ran its first step: rag.query_document up to the first llm.invoke
VectorNodeStarts ==
    /\ wf_pc = "running"
    /\ "vector_node" \in DOMAIN tasks
    /\ tasks["vector_node"].st = "scheduled"
    /\ "vector_node" \in DOMAIN tasks'
    /\ tasks'["vector_node"].st # "scheduled"

\* query_document built a prompt in this step
PromptBuilt == content'.kind # "none" /\ content'.kind # content.kind

\* the document a text excerpt or an attached image comes from
ExcerptDoc(e) == e[2][2]
ImageDocOf(img) == img[2]

\* every text excerpt and every attached image of a prompt is of one document
OneDocument(prompt) ==
    LET texts == {ExcerptDoc(prompt.text_excerpts[i]) : i \in DOMAIN prompt.text_excerpts}
        images == IF prompt.kind = "multimodal"
                  THEN {ImageDocOf(prompt.images[i]) : i \in DOMAIN prompt.images}
                  ELSE {}
    IN Cardinality(texts \cup images) <= 1

(***************************************************************************)
(* C1: an ingestion that fails after it has started on the document leaves *)
(* the segment list, the embedding list, the image store and the search    *)
(* index exactly as they were before it started.                           *)
(***************************************************************************)
C1_FailedIngestionLeavesCorpus ==
    [][\A i \in 1..Len(jobs) : IngestionFails(i) => UNCHANGED ragvars]_vars

(***************************************************************************)
(* C2: a query that builds its prompt while an ingestion job is in         *)
(* progress builds it from the segments and images of one document only.   *)
(***************************************************************************)
C2_PromptOfOneDocument ==
    [][(PromptBuilt /\ jobs # << >>) => OneDocument(content')]_vars

(***************************************************************************)
(* C3: while the vector store is unset, which it is from the start until   *)
(* an ingestion succeeds and again after every reset, query_document       *)
(* raises the not-initialized ValueError, makes no llm.invoke call and     *)
(* returns no text.                                                        *)
(***************************************************************************)
C3_UnsetStoreQueryFails ==
    /\ [][(VectorNodeStarts /\ vector_store = None)
            => /\ response'.raised
               /\ response'.value.kind = "ValueError"
               /\ llm_calls' = 0
               /\ content'.kind = "none"]_vars
    /\ [][(vector_store = None /\ vector_store' # None)
            => \E i \in 1..Len(jobs) : IngestionSucceeds(i)]_vars
    /\ [][resets' # resets => vector_store' = None]_vars

C3_Witness ==
    /\ resets = 1
    /\ vector_store = None
    /\ response.raised
    /\ response.value.kind = "ValueError"
    /\ llm_calls = 0


(***************************************************************************)
(* C5: when a node raises, the invocation ends in an error: no further     *)
(* superstep starts (CombineNode does not run), the task that raised is    *)
(* not run again, and the request answers success = false with an empty    *)
(* response, also when the other branch returned output.                   *)
(***************************************************************************)
SomeTaskRaised == \E n \in DOMAIN tasks : tasks[n].st = "raised"

C5_NodeFailureFailsQuery ==
    /\ [][(wf_pc = "running" /\ SomeTaskRaised /\ wf_pc' = "idle")
            => /\ ~query_response'.success
               /\ query_response'.response.kind = "empty"]_vars
    /\ [][(wf_pc = "running" /\ SomeTaskRaised /\ wf_pc' = "running")
            => /\ DOMAIN tasks' = DOMAIN tasks
               /\ \A n \in DOMAIN tasks :
                     tasks[n].st = "raised" => tasks'[n] = tasks[n]]_vars

C5_Witness ==
    /\ wf_pc = "running"
    /\ DOMAIN tasks = {"research_node", "vector_node"}
    /\ tasks["research_node"].st = "returned"
    /\ tasks["research_node"].writes # << >>
    /\ tasks["vector_node"].st = "raised"

(***************************************************************************)
(* C6: CombineNode is scheduled only after both ResearchNode and           *)
(* VectorNode have ended, it is not scheduled again once it has ended, and *)
(* neither branch exists as a task before QueryRefiner has ended.          *)
(***************************************************************************)
Branches == {"research_node", "vector_node"}

TextSegments(docs) == {i \in DOMAIN docs : docs[i].type = "text"}

FallbackCase == llm_raised >= 1 /\ TextSegments(context_docs) # {}

C8_FallbackAlwaysAnswers ==
    (FallbackCase /\ response.value.kind # "pending")
       => /\ llm_calls = 2
          /\ ~response.raised
          /\ response.value.kind = "answer"

(***************************************************************************)
(* C8 amended: once the multimodal call has raised and a text segment was  *)
(* retrieved, query_document makes exactly one further call, with a        *)
(* text-only prompt that lists exactly the retrieved text segments; when   *)
(* that call returns, its text is returned as a normal answer, and when    *)
(* it raises, query_document raises its error.                             *)
(***************************************************************************)
C8_FallbackTextOnly ==
    FallbackCase
       => /\ llm_calls = 2
          /\ content.kind = "text_only"
          /\ "images" \notin DOMAIN content
          /\ Len(content.text_excerpts) = Cardinality(TextSegments(context_docs))
          /\ \A j \in DOMAIN content.text_excerpts :
                \E i \in TextSegments(context_docs) :
                   content.text_excerpts[j]
                      = <<context_docs[i].page, context_docs[i].page_content>>
          /\ \/ llm_raised = 1 /\ response.value.kind = "pending"
             \/ /\ llm_raised = 1
                /\ ~response.raised
                /\ response.value.kind = "answer"
                /\ response.value.prompt = content
             \/ llm_raised = 2 /\ response.raised /\ response.value.kind = "LlmError"

C8_Witness ==
    /\ FallbackCase
    /\ \E i \in DOMAIN context_docs : context_docs[i].type = "image"
    /\ ~response.raised
    /\ response.value.kind = "answer"

(***************************************************************************)
(* C9: once the multimodal call has raised and no text segment was         *)
(* retrieved, query_document has returned the fixed no-content answer,     *)
(* after one llm.invoke call only, and has raised nothing.                 *)
(***************************************************************************)
C9_NoTextFallback ==
    (llm_raised >= 1 /\ TextSegments(context_docs) = {})
       => /\ llm_calls = 1
          /\ llm_raised = 1
          /\ ~response.raised
          /\ response.value.kind = "no_text_content"

C9_Witness ==
    /\ llm_raised = 1
    /\ context_docs # << >>
    /\ TextSegments(context_docs) = {}
    /\ response.value.kind = "no_text_content"

(***************************************************************************)
(* C10: a reset leaves ready false, the vector store unset and the segment *)
(* list, the embedding list and the image store empty, as they are         *)
(* initially, and in that state query_document raises the not-initialized  *)
(* ValueError, before the first ingestion as after a reset.                *)
(***************************************************************************)
InitialCorpus(docs, embeddings, images, store, ready) ==
    /\ docs = << >>
    /\ embeddings = << >>
    /\ DOMAIN images = {}
    /\ store = None
    /\ ~ready

C10_ResetRestoresInitialState ==
    /\ InitialCorpus(all_docs, all_embeddings, image_data_store, vector_store,
                     document_uploaded)
    /\ [][resets' # resets
            => InitialCorpus(all_docs', all_embeddings', image_data_store',
                             vector_store', document_uploaded')]_vars
    /\ [][(VectorNodeStarts /\ InitialCorpus(all_docs, all_embeddings, image_data_store,
                                             vector_store, document_uploaded))
            => (response'.raised /\ response'.value.kind = "ValueError")]_vars

\* a query made while a document was ready is in a history, and after the
\* reset the corpus is the initial one and a query has just failed
C10_Witness ==
    /\ resets = 1
    /\ InitialCorpus(all_docs, all_embeddings, image_data_store, vector_store,
                     document_uploaded)
    /\ response.raised
    /\ response.value.kind = "ValueError"
    /\ \E t \in DOMAIN checkpoints :
          \E i \in DOMAIN checkpoints[t].messages :
             /\ checkpoints[t].messages[i].type = "human"
             /\ ~checkpoints[t].messages[i].content.note

(***************************************************************************)
(* C11: a successful ingestion leaves exactly the segments, embeddings,    *)
(* image assets and index that the ingestion of its document gives from    *)
(* the empty state, whatever the lists held before; so ingesting the same  *)
(* document again gives the same three counts, and nothing of an earlier   *)
(* ingestion survives.                                                     *)
(***************************************************************************)
Ingested(d) == load_and_process_document(RagInit, d, TRUE)

IsCorpus(r, docs, embeddings, images, store) ==
    /\ docs = r.all_docs
    /\ embeddings = r.all_embeddings
    /\ images = r.image_data_store
    /\ store = r.vector_store

C11_IngestionReplacesCorpus ==
    [][\A i \in 1..Len(jobs) :
          IngestionSucceeds(i)
             => LET fresh == Ingested(jobs[i].doc) IN
                /\ IsCorpus(fresh, all_docs', all_embeddings', image_data_store',
                            vector_store')
                /\ IsCorpus(fresh, all_docs, all_embeddings, image_data_store, vector_store)
                      => /\ Len(all_docs') = Len(all_docs)
                         /\ Len(all_embeddings') = Len(all_embeddings)
                         /\ Cardinality(DOMAIN image_data_store')
                               = Cardinality(DOMAIN image_data_store)]_vars

\* a document was ingested, its job has ended with ready true, and the job of
\* a later upload has ingested the same segments again
C11_Witness ==
    /\ Len(jobs) = 1
    /\ jobs[1].pc = "processed"
    /\ jobs[1].success
    /\ jobs[1].ready_before
    /\ IsCorpus(Ingested(jobs[1].doc), all_docs, all_embeddings, image_data_store,
                vector_store)
    /\ Len(all_docs) > 1
    /\ DOMAIN image_data_store # {}

\* job i ended in this step: process_document_background returned
JobEnds(i) ==
    /\ i \in 1..Len(jobs)
    /\ jobs[i].pc = "processed"
    /\ jobs' = RemoveAt(jobs, i)

HasText(d) == \E p \in DOMAIN Pages(d) : Pages(d)[p].text > 0
NoPageRaises(d) == \A p \in DOMAIN Pages(d) : ~Pages(d)[p].raises

\* the ingestion of job i has succeeded and left segments, as many embeddings
\* and an index
IngestedNonEmpty(i) ==
    /\ jobs'[i].success
    /\ Len(all_docs') > 0
    /\ Len(all_docs') = Len(all_embeddings')
    /\ vector_store' # None

\* a job that has succeeded sets ready when it ends, and until then only a
\* reset or the ingestion of another job changes what it has ingested
SuccessMakesReady ==
    /\ [][\A i \in 1..Len(jobs) : (JobEnds(i) /\ jobs[i].success) => document_uploaded']_vars
    /\ [][\A i \in 1..Len(jobs) :
             (jobs[i].pc = "processed" /\ jobs[i].success /\ ragvars' # ragvars)
                => \/ resets' # resets
                   \/ \E j \in 1..Len(jobs) : j # i /\ IngestionRuns(j)]_vars

ExceedsTimeout(i) == Seconds(jobs[i].doc) > IngestionTimeout

C13_TimeoutKeepsReady ==
    [][\A i \in 1..Len(jobs) :
          (JobEnds(i) /\ ExceedsTimeout(i)) => document_uploaded' = jobs[i].ready_before]_vars

\* Under Spec, a step that writes a variable of a query leaves the variables
\* of the host and of the RAG store alone, so HostSpec loses no behaviour of
\* the background tasks.
QueriesLeaveHost ==
    [][(wfvars' # wfvars \/ queryvars' # queryvars) => UNCHANGED <<hostvars, ragvars>>]_vars

(***************************************************************************)
(* C14: every background task that was added ends, and once it has ended   *)
(* its uploaded file is not in the uploads directory, whatever the outcome *)
(* of its ingestion: a file is there only while its task has not ended.    *)
(***************************************************************************)
Paths == 1..(MaxUploads + 1)
JobOf(p) == \E i \in 1..Len(jobs) : jobs[i].path = p

Unset(text) == text.kind = "None"

StartsFromHistory ==
    LET n == Len(state'.messages) IN
    /\ n >= 1
    /\ state'.messages[n].type = "human"
    /\ SubSeq(state'.messages, 1, n - 1)
          = IF thread' \in DOMAIN checkpoints THEN checkpoints[thread'].messages ELSE << >>

RequestReturns == wf_pc = "running" /\ wf_pc' = "idle"

C17_QueryReturnsOrTimesOut ==
    /\ (wf_pc = "running") ~> (wf_pc = "idle")
    /\ [][(RequestReturns /\ query_response'.error = "timeout")
            => /\ ~query_response'.success
               /\ query_response'.response.kind = "empty"
               /\ checkpoints' = checkpoints]_vars
    /\ [][(RequestReturns /\ ~SomeTaskRaised /\ "combined_node" \notin finished)
            => query_response'.error = "timeout"]_vars

\* a query was answered by the timeout after QueryRefiner's message had been
\* checkpointed, and the checkpoint holds nothing more
C17_Witness ==
    /\ wf_pc = "idle"
    /\ queries >= 1
    /\ query_response.error = "timeout"
    /\ ~query_response.success
    /\ \E t \in DOMAIN checkpoints :
          /\ Len(checkpoints[t].messages) = 2
          /\ checkpoints[t].messages[2].content.kind = "refined"

(***************************************************************************)
(* C18: once rag.query_document has returned an answer (the model's        *)
(* answer, the answer of the text-only fallback or the fixed no-content    *)
(* answer), the task of VectorNode has returned and its write sets         *)
(* vector_response to that answer.                                         *)
(***************************************************************************)
AnswerReturned == ~response.raised /\ response.value.kind \in {"answer", "no_text_content"}

C18_VectorNodeStoresAnswer ==
    (wf_pc = "running" /\ "vector_node" \in DOMAIN tasks /\ AnswerReturned)
       => /\ tasks["vector_node"].st = "returned"
          /\ tasks["vector_node"].writes = << <<"vector_response", response.value>> >>

(***************************************************************************)
(* C19: a query made while no document is ready, which the request marks   *)
(* as having no document, is answered with success = true, unless the      *)
(* timeout ends it or a model or tool call of QueryRefiner or ResearchNode *)
(* fails.                                                                  *)
(***************************************************************************)
\* the running request was made while document_uploaded was false
MarkedNoDocument ==
    \E i \in DOMAIN state.messages :
       /\ state.messages[i].type = "human"
       /\ state.messages[i].content.n = queries
       /\ state.messages[i].content.note

\* no call to a model or a tool has failed in the running invocation
NoCallFailed ==
    /\ llm_raised = 0
    /\ \A n \in DOMAIN tasks : tasks[n].st = "raised" => n = "vector_node"

C19_NoDocumentQueryAnswered ==
    [][(/\ RequestReturns
        /\ MarkedNoDocument
        /\ NoCallFailed
        /\ query_response'.error # "timeout")
          => query_response'.success]_vars

(***************************************************************************)
(* C20: in every state, after any uploads, ingestions that succeeded,      *)
(* failed or skipped images, and resets, all_docs and all_embeddings have  *)
(* the same length.                                                        *)
(***************************************************************************)
C20_SegmentsMatchEmbeddings == Len(all_docs) = Len(all_embeddings)

ImageSegments == {i \in DOMAIN all_docs : all_docs[i].type = "image"}

\* a document was ingested of which one image was embedded and one was stored
\* but skipped when its embedding failed
C20_Witness ==
    /\ Len(all_docs) > 0
    /\ Len(all_docs) = Len(all_embeddings)
    /\ ImageSegments # {}
    /\ Cardinality(DOMAIN image_data_store) > Cardinality(ImageSegments)

(***************************************************************************)
(* C21: for every segment that the search index holds at the place it has  *)
(* in the segment list, the vector of the index is the embedding kept for  *)
(* it in all_embeddings: the image embedding for an image segment, the     *)
(* text embedding of the chunk for a text segment.                         *)
(***************************************************************************)
Indexed(i) ==
    /\ i \in DOMAIN all_docs
    /\ i \in DOMAIN all_embeddings
    /\ vector_store[i].doc = all_docs[i]

C21_IndexVectorsAreEmbeddings ==
    \A i \in DOMAIN vector_store :
       Indexed(i) => vector_store[i].vector = all_embeddings[i]

(***************************************************************************)
(* C22: a composite prompt has one [Page N] entry for every retrieved text *)
(* segment and one attached image for every retrieved image segment, so    *)
(* no image is noted in the text block without being attached.             *)
(***************************************************************************)
RetrievedImages(docs) == {i \in DOMAIN docs : docs[i].type = "image"}

C22_PromptPartsMatchRetrieved ==
    content.kind = "multimodal"
       => /\ Len(content.text_excerpts) = Cardinality(TextSegments(context_docs))
          /\ Len(content.images) = Cardinality(RetrievedImages(context_docs))
          /\ Len(content.image_notes) = Len(content.images)

\* The same for the prompts built while the index is the index of the current
\* segment list, which it is unless an ingestion has failed since it was built.
IndexOfLists ==
    /\ Len(vector_store) = Len(all_docs)
    /\ \A i \in DOMAIN vector_store : vector_store[i].doc = all_docs[i]

PromptPartsMatchOnIndexOfLists ==
    [][(PromptBuilt /\ content'.kind = "multimodal" /\ IndexOfLists)
          => /\ Len(content'.text_excerpts) = Cardinality(TextSegments(context_docs'))
             /\ Len(content'.images) = Cardinality(RetrievedImages(context_docs'))
             /\ Len(content'.image_notes) = Len(content'.images)]_vars

(***************************************************************************)
(* C23: while the two branches are the tasks of the invocation, the        *)
(* history is the checkpointed one: the messages the invocation started    *)
(* with and, as the one message after the user's, QueryRefiner's refined   *)
(* text; what ResearchNode returns is the research on exactly that text,   *)
(* the prompt of VectorNode asks exactly that text, in whichever order the *)
(* two run, and neither task writes to the messages.                       *)
(***************************************************************************)
BranchSuperstep == wf_pc = "running" /\ DOMAIN tasks = Branches

C23_BranchesGetRefinedQuery ==
    BranchSuperstep
       => LET n == Len(state.messages) IN
          /\ n >= 2
          /\ state.messages[n - 1].type = "human"
          /\ state.messages[n - 1].content.kind = "query"
          /\ state.messages[n - 1].content.n = queries
          /\ state.messages[n].type = "ai"
          /\ state.messages[n].content = LlmRefine(state.messages[n - 1].content)
          /\ checkpoints[thread].messages = state.messages
          /\ tasks["research_node"].st = "returned"
                => tasks["research_node"].writes
                      = << <<"research_response", AgentResearch(state.messages[n].content)>> >>
          /\ content.kind # "none" => content.query = state.messages[n].content
          /\ \A b \in Branches :
                \A i \in DOMAIN tasks[b].writes : tasks[b].writes[i][1] # "messages"

\* ResearchNode has returned its research and VectorNode has built its prompt
C23_Witness ==
    /\ BranchSuperstep
    /\ tasks["research_node"].st = "returned"
    /\ tasks["vector_node"].st = "llm_multimodal"
    /\ content.query.kind = "refined"
    /\ Len(state.messages) = 4

(***************************************************************************)
(* C24: an ingestion in which images fail to be extracted, decoded or      *)
(* embedded, and no page fails on its text, leaves exactly the text chunks *)
(* of the document and the segments of its other images, with no segment   *)
(* for a failed image; it succeeds, with all of them indexed, when at      *)
(* least one segment remains.                                              *)
(***************************************************************************)
TextChunksOf(d) ==
    UNION {{TextChunk(d, p - 1, c) : c \in 1..Pages(d)[p].text} : p \in DOMAIN Pages(d)}

ImagesOf(d, kinds) ==
    UNION {{ImageDoc(p - 1, k - 1) :
               k \in {j \in DOMAIN Pages(d)[p].imgs : Pages(d)[p].imgs[j] \in kinds}} :
           p \in DOMAIN Pages(d)}

Range(seq) == {seq[j] : j \in DOMAIN seq}

C24_FailedImageIsSkipped ==
    [][\A i \in 1..Len(jobs) :
          (IngestionRuns(i) /\ jobs[i].path \in upload_dir /\ NoPageRaises(jobs[i].doc))
             => LET segs == TextChunksOf(jobs[i].doc) \cup ImagesOf(jobs[i].doc, {"ok"}) IN
                /\ Range(all_docs') = segs
                /\ Len(all_docs') = Cardinality(segs)
                /\ jobs'[i].success = (segs # {})
                /\ jobs'[i].success
                      => {vector_store'[j].doc : j \in DOMAIN vector_store'} = segs]_vars

\* a document with text chunks, an image that cannot be decoded and an image
\* that can has been ingested with success
C24_Witness ==
    \E i \in 1..Len(jobs) :
       /\ jobs[i].pc = "processed"
       /\ jobs[i].success
       /\ ImagesOf(jobs[i].doc, {"undecodable", "unembeddable"}) # {}
       /\ TextChunksOf(jobs[i].doc) # {}
       /\ Range(all_docs) = TextChunksOf(jobs[i].doc) \cup ImagesOf(jobs[i].doc, {"ok"})
       /\ \E j \in DOMAIN all_docs : all_docs[j].type = "image"

(***************************************************************************)
(* C25: a query answers with the node-failure error only when a node has   *)
(* raised, and with the timeout error otherwise; and when a job whose      *)
(* ingestion exceeded the timeout has ended, the status the host reports   *)
(* is none of those it reports after an ingestion that failed for another  *)
(* reason.                                                                 *)
(***************************************************************************)
\* at the end of a job whose ingestion failed, document_uploaded is false
StatusAfterFailure ==
    {[workflow_ready |-> TRUE, document_uploaded |-> FALSE, rag_initialized |-> b,
      initialization_error |-> None] : b \in BOOLEAN}

C25_TimeoutIsDistinguishable ==
    /\ [][(RequestReturns /\ ~query_response'.success)
            => /\ query_response'.error \in {"timeout", "error"}
               /\ query_response'.error = "error" => SomeTaskRaised]_vars
    /\ [][\A i \in 1..Len(jobs) :
             (JobEnds(i) /\ ExceedsTimeout(i))
                => get_status' \notin StatusAfterFailure]_vars


(***************************************************************************)
(* C26: an upload that is rejected (not a .pdf, or too large) starts no    *)
(* job and leaves the ready flag, the Corpus and the image store as they   *)
(* were.                                                                   *)
(***************************************************************************)
UploadRejected == uploads' # uploads /\ upload_response'.status = 400

C26_RejectedUploadChangesNothing ==
    [][UploadRejected
         => /\ jobs' = jobs
            /\ document_uploaded' = document_uploaded
            /\ UNCHANGED ragvars]_vars


(***************************************************************************)
(* C27: the session id a query request returns is the id under which the   *)
(* state of its invocation was checkpointed, also when the request         *)
(* carried no id.                                                          *)
(***************************************************************************)
C27_ReturnedSessionIsThread ==
    [][RequestReturns
         => /\ thread \in DOMAIN checkpoints
            /\ query_response'.session_id = thread]_vars


(***************************************************************************)
(* C28: when an ingestion has ended, the keys of the image store are       *)
(* exactly the asset ids of the image segments.                            *)
(***************************************************************************)
C28_AssetsMatchImageSegments ==
    [][\A i \in 1..Len(jobs) :
          IngestionRuns(i)
             => DOMAIN image_data_store'
                  = {all_docs'[k].image_id :
                        k \in {j \in DOMAIN all_docs' : all_docs'[j].type = "image"}}]_vars


(***************************************************************************)
(* C29: when a reset ran while a job was in progress (the reset removed    *)
(* the file of the job) and nothing was uploaded since, the system is      *)
(* still in the reset state when the job has ended.                        *)
(***************************************************************************)
\* every upload so far is a job in progress whose file a reset has removed
ResetDuringJobs ==
    /\ resets > 0
    /\ Len(jobs) = uploads
    /\ \A j \in 1..Len(jobs) : jobs[j].path \notin upload_dir

C29_ResetOutlastsJob ==
    [][\A i \in 1..Len(jobs) :
          (JobEnds(i) /\ ResetDuringJobs)
             => InitialCorpus(all_docs', all_embeddings', image_data_store',
                              vector_store', document_uploaded')]_vars


\* the reset state does outlast every job whose ingestion did not succeed,
\* among them every job that was still waiting to run when the reset
\* removed its file
ResetOutlastsFailedJob ==
    [][\A i \in 1..Len(jobs) :
          (JobEnds(i) /\ ResetDuringJobs /\ ~jobs[i].success)
             => InitialCorpus(all_docs', all_embeddings', image_data_store',
                              vector_store', document_uploaded')]_vars


(***************************************************************************)
(* C30: when two jobs overlap and no reset has run, the Corpus that the    *)
(* later of the two ingestions leaves, which is the Corpus there is when   *)
(* both jobs have ended, is the Corpus of one document.                    *)
(***************************************************************************)
\* the ingestion of job i runs as the later one of two overlapping jobs: the
\* other job has run its ingestion and has not ended, or it has ended and
\* job i was uploaded while the file of the other job was there
LaterOfOverlapping(i) ==
    /\ resets = 0
    /\ IngestionRuns(i)
    /\ \A j \in 1..Len(jobs) : j # i => jobs[j].pc = "processed"
    /\ Len(jobs) > 1 \/ jobs[i].path > 1

C30_OverlappingJobsLeaveOneCorpus ==
    [][\A i \in 1..Len(jobs) :
          LaterOfOverlapping(i)
             => \E d \in DocIds :
                   IsCorpus(Ingested(d), all_docs', all_embeddings', image_data_store',
                            vector_store')]_vars

====
